---- MODULE Spec2Model ----
(***************************************************************************)
(* Model of ivy/nodes.py: the cached parse tree of Node instances, the     *)
(* directory/file scan that builds it, the init() walk and the accessors.  *)
(*                                                                         *)
(* A file or directory name is a sequence of tokens (a token stands for a  *)
(* run of characters, "." for the dot), a filesystem path is a sequence of *)
(* names below the source directory, a slug is a sequence of tokens, and a *)
(* Node instance is an index into `heap`; 0 stands for None.               *)
(***************************************************************************)
EXTENDS Integers, Sequences, FiniteSets, TLC

\* ---------------------------------------------------------------- bounds
MaxEntries == 4
MaxCalls == 2

\* The directories and files the source directory may hold, as paths below
\* it. The directories a/ and a.1/ have the same stem; a.md and a.txt have
\* the same stem and both a registered extension; .a.md is a dotfile and
\* a.bak has no registered extension.
CandidateDirs ==
    { << <<"a">> >>, << <<"a", ".", "1">> >>, << <<"b">> >>, << <<"index">> >>,
      << <<"a">>, <<"b">> >> }
CandidateFiles ==
    { << <<"a", ".", "md">> >>, << <<"a", ".", "txt">> >>,
      << <<"index", ".", "md">> >>, << <<".", "a", ".", "md">> >>,
      << <<"a", ".", "bak">> >>,
      << <<"a">>, <<"index", ".", "md">> >>, << <<"a">>, <<"a", ".", "txt">> >>,
      << <<"a", ".", "1">>, <<"a", ".", "md">> >>,
      << <<"b">>, <<"a", ".", "md">> >>,
      << <<"a">>, <<"b">>, <<"a", ".", "md">> >> }

\* Keys the callers of inherit() pass, and the default they supply.
InheritKeys == { "title", "text" }
DefaultValue == [src |-> <<>>, ops |-> <<"default">>]

\* ------------------------------------------------------- collaborators
\* pathlib: position of the last dot of a name (0 when there is none).
RECURSIVE RFindDot(_, _)
RFindDot(name, i) ==
    IF i = 0 THEN 0
    ELSE IF name[i] = "." THEN i
    ELSE RFindDot(name, i - 1)

\* pathlib.PurePath.suffix: from the last dot on, unless the dot is the
\* first or the last character of the name.
PathSuffix(name) ==
    LET i == RFindDot(name, Len(name))
    IN IF 1 < i /\ i < Len(name) THEN SubSeq(name, i, Len(name)) ELSE <<>>

\* pathlib.PurePath.stem: the name without its suffix.
PathStem(name) ==
    LET i == RFindDot(name, Len(name))
    IN IF 1 < i /\ i < Len(name) THEN SubSeq(name, 1, i - 1) ELSE name

\* str.strip('.')
RECURSIVE StripDots(_)
StripDots(s) ==
    IF s = <<>> THEN s
    ELSE IF Head(s) = "." THEN StripDots(Tail(s))
    ELSE IF s[Len(s)] = "." THEN StripDots(SubSeq(s, 1, Len(s) - 1))
    ELSE s

\* str.startswith('.')
StartsWithDot(s) == s # <<>> /\ Head(s) = "."

\* utils.slugify: lower-cases the stem, turns every other character into a
\* hyphen and strips the hyphens at both ends.
Lower(tok) == IF tok = "A" THEN "a" ELSE IF tok = "B" THEN "b" ELSE tok

RECURSIVE StripHyphens(_)
StripHyphens(s) ==
    IF s = <<>> THEN s
    ELSE IF Head(s) = "-" THEN StripHyphens(Tail(s))
    ELSE IF s[Len(s)] = "-" THEN StripHyphens(SubSeq(s, 1, Len(s) - 1))
    ELSE s

slugify(stem) ==
    StripHyphens([i \in 1..Len(stem) |->
                    IF stem[i] = "." THEN "-" ELSE Lower(stem[i])])

\* renderers.callbacks: the registered rendering engines, by extension.
callbacks == { <<"md">>, <<"txt">> }

\* loader.load(filepath): the text and the metadata of a file.
LoadText(filepath) == [src |-> filepath, ops |-> <<>>]
LoadMeta(filepath) ==
    IF PathSuffix(filepath[Len(filepath)]) = <<".", "md">>
    THEN [k \in {"title"} |-> [src |-> filepath, ops |-> <<"title">>]]
    ELSE << >>

\* hooks.filter(name, value, node) and renderers.render(text, ext).
Filter(hook, value) == [value EXCEPT !.ops = Append(@, hook)]
Render(text, ext) == [text EXCEPT !.ops = (@ \o <<"render">>) \o ext]

\* Slug sequences the callers of node() pass: those of the paths above,
\* whether or not the source directory holds them.
SlugArgs ==
    { [i \in 1..Len(p) |-> slugify(PathStem(p[i]))] :
        p \in CandidateDirs \cup CandidateFiles \cup { <<>> } }

\* ------------------------------------------------------------- state
VARIABLES
    fs,       \* the source directory: [dirs, files], two sets of paths
    heap,     \* the Node instances allocated so far
    cache,    \* the module-level cache: 0 (None) or a Node
    pc,       \* where the running call is: "idle", "scan", "init"
    stack,    \* frames of parse_node_directory (scan) or Node.init (init)
    events,   \* hooks.event calls, in firing order
    loads,    \* loader.load calls, in order
    scans,    \* parse_node_directory calls, in order: [node, path]
    ncalls,   \* top-level calls started so far
    rootret,  \* the Nodes root() has returned so far
    last,     \* outcome of the last finished call
    calls,    \* the Nodes the callback of the running walk() was called on
    thr       \* the threads that call root(): where each is in it

vars == << fs, heap, cache, pc, stack, events, loads, scans, ncalls,
           rootret, last, calls, thr >>

\* The two threads of the claim about concurrent first calls.
Threads == { "t1", "t2" }

\* Node.__init__
EmptyValue == [src |-> <<>>, ops |-> <<>>]
NewNode ==
    [ data |-> [k \in {"text", "html"} |-> EmptyValue],
      parent |-> 0,
      children |-> <<>>,
      stem |-> <<>>,
      slug |-> <<>>,
      ext |-> <<>> ]

\* dict: children is an insertion-ordered sequence of <<slug, node>> pairs.
RECURSIVE DictIndex(_, _, _)
DictIndex(d, key, i) ==
    IF i > Len(d) THEN 0
    ELSE IF d[i][1] = key THEN i
    ELSE DictIndex(d, key, i + 1)

DictHas(d, key) == DictIndex(d, key, 1) # 0
DictGet(d, key) == d[DictIndex(d, key, 1)][2]
DictSet(d, key, val) ==
    IF DictHas(d, key)
    THEN [d EXCEPT ![DictIndex(d, key, 1)] = <<key, val>>]
    ELSE Append(d, <<key, val>>)
DictValues(d) == [i \in 1..Len(d) |-> d[i][2]]

\* dict.update on a data mapping
DataUpdate(data, other) ==
    [k \in DOMAIN data \cup DOMAIN other |->
        IF k \in DOMAIN other THEN other[k] ELSE data[k]]

\* Mutant of NodePath: the slugs are collected from the node upwards and
\* not reversed.
RECURSIVE NodePathLeafFirst(_, _)
NodePathLeafFirst(h, n) ==
    IF h[n].parent = 0 THEN <<>>
    ELSE <<h[n].slug>> \o NodePathLeafFirst(h, h[n].parent)

\* Node.path: the slugs from the root's child down to the node.
RECURSIVE NodePath(_, _)
NodePath(h, n) ==
    IF h[n].parent = 0 THEN <<>>
    ELSE Append(NodePath(h, h[n].parent), h[n].slug)

\* '/'.join(segments), a string being a sequence of tokens.
RECURSIVE Join(_)
Join(segs) ==
    IF segs = <<>> THEN <<>>
    ELSE IF Len(segs) = 1 THEN Head(segs)
    ELSE (Head(segs) \o <<"/">>) \o Join(Tail(segs))

\* Node.url: a Node is truthy, so `if self.parent` tests for a parent.
NodeUrl(h, n) ==
    IF h[n].parent # 0
    THEN (<<"@root/">> \o Join(NodePath(h, n))) \o <<"//">>
    ELSE <<"@root/">>

\* Mutant of Descend: an absent slug ends the descent at the Node reached
\* so far instead of None.
RECURSIVE DescendPartial(_, _, _)
DescendPartial(h, n, slugs) ==
    IF slugs = <<>> THEN n
    ELSE IF ~DictHas(h[n].children, Head(slugs)) THEN n
    ELSE DescendPartial(h, DictGet(h[n].children, Head(slugs)), Tail(slugs))

\* node(*slugs), from the cached root on.
RECURSIVE Descend(_, _, _)
Descend(h, n, slugs) ==
    IF slugs = <<>> THEN n
    ELSE IF ~DictHas(h[n].children, Head(slugs)) THEN 0
    ELSE Descend(h, DictGet(h[n].children, Head(slugs)), Tail(slugs))

\* Mutant of Inherit: looks at the node's own data only.
InheritLocal(h, n, key, default) ==
    IF n = 0 THEN default
    ELSE IF key \in DOMAIN h[n].data THEN h[n].data[key]
    ELSE default

\* Node.inherit(key, default)
RECURSIVE Inherit(_, _, _, _)
Inherit(h, n, key, default) ==
    IF n = 0 THEN default
    ELSE IF key \in DOMAIN h[n].data THEN h[n].data[key]
    ELSE Inherit(h, h[n].parent, key, default)

\* ------------------------------------------------------- the filesystem
SubDirs(dirpath) ==
    { p \in fs.dirs : Len(p) = Len(dirpath) + 1 /\ SubSeq(p, 1, Len(dirpath)) = dirpath }
DirFiles(dirpath) ==
    { p \in fs.files : Len(p) = Len(dirpath) + 1 /\ SubSeq(p, 1, Len(dirpath)) = dirpath }

Init ==
    /\ fs = [dirs |-> {}, files |-> {}]
    /\ heap = <<>>
    /\ cache = 0
    /\ pc = "idle"
    /\ stack = <<>>
    /\ events = <<>>
    /\ loads = <<>>
    /\ scans = <<>>
    /\ ncalls = 0
    /\ rootret = {}
    /\ last = [op |-> "none", slugs |-> <<>>, outcome |-> "none", value |-> 0]
    /\ calls = <<>>
    /\ thr = [t \in Threads |-> [pc |-> "start", seen |-> "none"]]

\* The site's author creates a directory below the source directory.
MakeDir(path) ==
    /\ ncalls = 0
    /\ Cardinality(fs.dirs) + Cardinality(fs.files) < MaxEntries
    /\ Len(path) = 1 \/ SubSeq(path, 1, Len(path) - 1) \in fs.dirs
    /\ path \notin fs.dirs
    /\ fs' = [fs EXCEPT !.dirs = @ \cup { path }]
    /\ UNCHANGED << heap, cache, pc, stack, events, loads, scans, ncalls,
                    rootret, last,
                    calls, thr >>

\* The site's author writes a file below the source directory.
MakeFile(path) ==
    /\ ncalls = 0
    /\ Cardinality(fs.dirs) + Cardinality(fs.files) < MaxEntries
    /\ Len(path) = 1 \/ SubSeq(path, 1, Len(path) - 1) \in fs.dirs
    /\ path \notin fs.files
    /\ fs' = [fs EXCEPT !.files = @ \cup { path }]
    /\ UNCHANGED << heap, cache, pc, stack, events, loads, scans, ncalls,
                    rootret, last,
                    calls, thr >>


\* ------------------------------------------------------------ the scan
\* Mutant of AddChildDir: the child's parent link is never set.
AddChildDirNoParent(h, dirnode, path) ==
    LET name == path[Len(path)]
        slug == slugify(PathStem(name))
        child == Len(h) + 1
        childnode == [NewNode EXCEPT !.slug = slug, !.stem = PathStem(name)]
    IN [Append(h, childnode) EXCEPT
            ![dirnode].children = DictSet(@, slug, child)]

\* parse_node_directory, body of the loop over the subdirectories: a new
\* child Node for the subdirectory `path` of the directory of `dirnode`.
AddChildDir(h, dirnode, path) ==
    LET name == path[Len(path)]
        slug == slugify(PathStem(name))
        child == Len(h) + 1
        childnode == [NewNode EXCEPT !.slug = slug,
                                     !.stem = PathStem(name),
                                     !.parent = dirnode]
    IN [Append(h, childnode) EXCEPT
            ![dirnode].children = DictSet(@, slug, child)]

\* Mutant of LinkFileNode: no special case for the slug 'index'.
LinkFileNodeNoIndex(h, root, dirnode, filepath) ==
    LET name == filepath[Len(filepath)]
        slug == slugify(PathStem(name))
        found == Descend(h, root, Append(NodePath(h, dirnode), slug))
        h1 == IF found # 0 THEN h ELSE Append(h, NewNode)
        filenode == IF found # 0 THEN found ELSE Len(h1)
    IN [heap |-> [h1 EXCEPT
                    ![filenode].slug = slug,
                    ![filenode].stem = PathStem(name),
                    ![filenode].parent = dirnode,
                    ![dirnode].children = DictSet(@, slug, filenode)],
        filenode |-> filenode]

\* Mutant of LinkFileNode: the file's Node is not given its slug.
LinkFileNodeNoSlug(h, root, dirnode, filepath) ==
    LET name == filepath[Len(filepath)]
        slug == slugify(PathStem(name))
    IN IF slug = <<"index">>
       THEN [heap |-> h, filenode |-> dirnode]
       ELSE LET found == Descend(h, root, Append(NodePath(h, dirnode), slug))
                h1 == IF found # 0 THEN h ELSE Append(h, NewNode)
                filenode == IF found # 0 THEN found ELSE Len(h1)
            IN [heap |-> [h1 EXCEPT
                            ![filenode].stem = PathStem(name),
                            ![filenode].parent = dirnode,
                            ![dirnode].children = DictSet(@, slug, filenode)],
                filenode |-> filenode]

\* parse_node_file, lines 196-204: the Node the file goes to, after linking.
LinkFileNode(h, root, dirnode, filepath) ==
    LET name == filepath[Len(filepath)]
        slug == slugify(PathStem(name))
    IN IF slug = <<"index">>
       THEN [heap |-> h, filenode |-> dirnode]
       ELSE LET found == Descend(h, root, Append(NodePath(h, dirnode), slug))
                h1 == IF found # 0 THEN h ELSE Append(h, NewNode)
                filenode == IF found # 0 THEN found ELSE Len(h1)
            IN [heap |-> [h1 EXCEPT
                            ![filenode].slug = slug,
                            ![filenode].stem = PathStem(name),
                            ![filenode].parent = dirnode,
                            ![dirnode].children = DictSet(@, slug, filenode)],
                filenode |-> filenode]

\* parse_node_file: the heap after the file has been parsed.
ParseNodeFile(h, root, dirnode, filepath) ==
    LET linked == LinkFileNode(h, root, dirnode, filepath)
        f == linked.filenode
        name == filepath[Len(filepath)]
    IN [linked.heap EXCEPT
            ![f].data = DataUpdate([@ EXCEPT !["text"] = LoadText(filepath)],
                                   LoadMeta(filepath)),
            ![f].ext = StripDots(PathSuffix(name))]

\* Mutant of Skipped: only the extension is tested, not the leading dot.
SkippedNoDot(filepath) ==
    LET name == filepath[Len(filepath)]
    IN StripDots(PathSuffix(name)) \notin callbacks

\* parse_node_directory, lines 180-183: the files the scan passes over.
Skipped(filepath) ==
    LET name == filepath[Len(filepath)]
    IN \/ StartsWithDot(PathStem(name))
       \/ StripDots(PathSuffix(name)) \notin callbacks

Top == stack[Len(stack)]
Pop == SubSeq(stack, 1, Len(stack) - 1)
SetTop(frame) == [stack EXCEPT ![Len(stack)] = frame]

ScanFrame(n, dirpath) ==
    [node |-> n, path |-> dirpath, phase |-> "open", todo |-> {}]
InitFrame(n) ==
    [node |-> n, path |-> <<>>, phase |-> "enter", todo |-> <<>>]

\* What a finished call hands back: root() the cache, node(*slugs) the
\* Node the descent from the cache ends at.
Outcome(h, op, slugs) ==
    IF op = "root"
    THEN [op |-> "root", slugs |-> <<>>, outcome |-> "returned", value |-> cache]
    ELSE [op |-> "node", slugs |-> slugs, outcome |-> "returned",
          value |-> Descend(h, cache, slugs)]

\* root(), or the root() that node(...) starts with, with the cache absent:
\* it allocates the root Node, caches it and enters parse_node_directory on
\* the source directory. Whether the caller is node(...), and its slugs,
\* is first read after root() has returned.
CallBuild ==
    /\ pc = "idle"
    /\ ncalls < MaxCalls
    /\ cache = 0
    /\ heap' = Append(heap, NewNode)
    /\ cache' = Len(heap) + 1
    /\ pc' = "scan"
    /\ stack' = << ScanFrame(Len(heap) + 1, <<>>) >>
    /\ scans' = Append(scans, [node |-> Len(heap) + 1, path |-> <<>>])
    /\ ncalls' = ncalls + 1
    /\ UNCHANGED << fs, events, loads, rootret, last,
                    calls, thr >>

\* Mutant of CallCached: root() without the `cache is None` test, which
\* allocates a new root and scans the source directory on every call.
CallCachedRebuild(op, slugs) ==
    /\ pc = "idle"
    /\ ncalls < MaxCalls
    /\ cache # 0
    /\ heap' = Append(heap, NewNode)
    /\ cache' = Len(heap) + 1
    /\ pc' = "scan"
    /\ stack' = << ScanFrame(Len(heap) + 1, <<>>) >>
    /\ scans' = Append(scans, [node |-> Len(heap) + 1, path |-> <<>>])
    /\ ncalls' = ncalls + 1
    /\ UNCHANGED << fs, events, loads, rootret, last,
                    calls, thr >>

\* Mutant of CallCached: 'init_tree' is fired outside the `cache is None`
\* branch, on every call.
CallCachedRefire(op, slugs) ==
    /\ pc = "idle"
    /\ ncalls < MaxCalls
    /\ cache # 0
    /\ ncalls' = ncalls + 1
    /\ rootret' = rootret \cup { cache }
    /\ events' = Append(events, [name |-> "init_tree", node |-> cache])
    /\ last' = [op |-> op, slugs |-> slugs, outcome |-> "returned",
                value |-> IF op = "root" THEN cache ELSE Descend(heap, cache, slugs)]
    /\ UNCHANGED << fs, heap, cache, pc, stack, loads, scans,
                    calls, thr >>

\* root() or node(*slugs) with the cache present: root() returns the cache.
CallCached(op, slugs) ==
    /\ pc = "idle"
    /\ ncalls < MaxCalls
    /\ cache # 0
    /\ ncalls' = ncalls + 1
    /\ rootret' = rootret \cup { cache }
    /\ last' = Outcome(heap, op, slugs)
    /\ UNCHANGED << fs, heap, cache, pc, stack, events, loads, scans,
                    calls, thr >>

\* iterdir() of the first loop: the subdirectories of the directory.
ListDirs ==
    /\ pc = "scan"
    /\ Top.phase = "open"
    /\ stack' = SetTop([Top EXCEPT !.phase = "dirs", !.todo = SubDirs(Top.path)])
    /\ UNCHANGED << fs, heap, cache, pc, events, loads, scans, ncalls,
                    rootret, last,
                    calls, thr >>

\* One round of the first loop: link a child and recurse into it.
ScanDir(path) ==
    /\ pc = "scan"
    /\ Top.phase = "dirs"
    /\ path \in Top.todo
    /\ heap' = AddChildDir(heap, Top.node, path)
    /\ stack' = Append(SetTop([Top EXCEPT !.todo = @ \ { path }]),
                       ScanFrame(Len(heap) + 1, path))
    /\ scans' = Append(scans, [node |-> Len(heap) + 1, path |-> path])
    /\ UNCHANGED << fs, cache, pc, events, loads, ncalls, rootret, last,
                    calls, thr >>

\* iterdir() of the second loop: the files of the directory.
ListFiles ==
    /\ pc = "scan"
    /\ Top.phase = "dirs"
    /\ Top.todo = {}
    /\ stack' = SetTop([Top EXCEPT !.phase = "files", !.todo = DirFiles(Top.path)])
    /\ UNCHANGED << fs, heap, cache, pc, events, loads, scans, ncalls,
                    rootret, last,
                    calls, thr >>

\* One round of the second loop over a file the scan passes over.
SkipFile(path) ==
    /\ pc = "scan"
    /\ Top.phase = "files"
    /\ path \in Top.todo
    /\ Skipped(path)
    /\ stack' = SetTop([Top EXCEPT !.todo = @ \ { path }])
    /\ UNCHANGED << fs, heap, cache, pc, events, loads, scans, ncalls,
                    rootret, last,
                    calls, thr >>

\* One round of the second loop over an accepted file: parse_node_file.
\* Its node() lookup calls root(), which returns the cache.
ScanFile(path) ==
    /\ pc = "scan"
    /\ Top.phase = "files"
    /\ path \in Top.todo
    /\ ~Skipped(path)
    /\ heap' = ParseNodeFile(heap, cache, Top.node, path)
    /\ loads' = Append(loads, path)
    /\ rootret' = IF slugify(PathStem(path[Len(path)])) = <<"index">>
                  THEN rootret ELSE rootret \cup { cache }
    /\ stack' = SetTop([Top EXCEPT !.todo = @ \ { path }])
    /\ UNCHANGED << fs, cache, pc, events, scans, ncalls, last,
                    calls, thr >>

\* parse_node_directory returns; the outermost return is followed by
\* cache.init() in root().
ScanReturn ==
    /\ pc = "scan"
    /\ Top.phase = "files"
    /\ Top.todo = {}
    /\ IF Len(stack) = 1
       THEN pc' = "init" /\ stack' = << InitFrame(cache) >>
       ELSE pc' = pc /\ stack' = Pop
    /\ UNCHANGED << fs, heap, cache, events, loads, scans, ncalls,
                    rootret, last,
                    calls, thr >>

\* iterdir() raises (unreadable directory): the error leaves
\* parse_node_directory and root(), which has no handler.
ScanRaise ==
    /\ pc = "scan"
    /\ Top.phase = "open" \/ (Top.phase = "dirs" /\ Top.todo = {})
    /\ pc' = "idle"
    /\ stack' = <<>>
    /\ last' = [op |-> "root", slugs |-> <<>>, outcome |-> "raised", value |-> 0]
    /\ UNCHANGED << fs, heap, cache, events, loads, scans, ncalls, rootret,
                    calls, thr >>

\* -------------------------------------------------------- the init walk
\* Mutant of InitNode: the renderer is given the unfiltered text.
InitNodeRenderRaw(h, n) ==
    LET text == Filter("node_text", h[n].data["text"])
        html == Render(h[n].data["text"], h[n].ext)
    IN [h EXCEPT ![n].data = [k \in DOMAIN @ \cup {"text", "html"} |->
                                IF k = "text" THEN text
                                ELSE IF k = "html" THEN Filter("node_html", html)
                                ELSE @[k]]]

\* Node.init, lines 104-110: filter the text, render it, filter the html.
InitNode(h, n) ==
    LET text == Filter("node_text", h[n].data["text"])
        html == Render(text, h[n].ext)
    IN [h EXCEPT ![n].data = [k \in DOMAIN @ \cup {"text", "html"} |->
                                IF k = "text" THEN text
                                ELSE IF k = "html" THEN Filter("node_html", html)
                                ELSE @[k]]]

\* Mutant of InitKids: init() that does not recurse into the subnodes.
InitKidsNone(h, n) == <<>>

\* Node.init, line 113: the subnodes init() is called on, in order.
InitKids(h, n) == DictValues(h[n].children)

InitEnter ==
    /\ pc = "init"
    /\ stack # <<>>
    /\ Top.phase = "enter"
    /\ heap' = InitNode(heap, Top.node)
    /\ stack' = SetTop([Top EXCEPT !.phase = "kids",
                                   !.todo = InitKids(heap, Top.node)])
    /\ UNCHANGED << fs, cache, pc, events, loads, scans, ncalls, rootret,
                    last,
                    calls, thr >>

\* Node.init, lines 113-114: init() of the next subnode.
InitChild ==
    /\ pc = "init"
    /\ stack # <<>>
    /\ Top.phase = "kids"
    /\ Top.todo # <<>>
    /\ stack' = Append(SetTop([Top EXCEPT !.todo = Tail(@)]),
                       InitFrame(Head(Top.todo)))
    /\ UNCHANGED << fs, heap, cache, pc, events, loads, scans, ncalls,
                    rootret, last,
                    calls, thr >>

\* Node.init, lines 119-122: fire 'init_node' and return self.
InitEvents(ev, n) == Append(ev, [name |-> "init_node", node |-> n])

InitExit ==
    /\ pc = "init"
    /\ stack # <<>>
    /\ Top.phase = "kids"
    /\ Top.todo = <<>>
    /\ events' = InitEvents(events, Top.node)
    /\ stack' = Pop
    /\ UNCHANGED << fs, heap, cache, pc, loads, scans, ncalls, rootret,
                    last,
                    calls, thr >>

\* A subscriber of 'node_text', of the renderer or of 'node_html' raises:
\* the error leaves init() and root(), which has no handler.
InitRaise ==
    /\ pc = "init"
    /\ stack # <<>>
    /\ Top.phase = "enter"
    /\ pc' = "idle"
    /\ stack' = <<>>
    /\ last' = [op |-> "root", slugs |-> <<>>, outcome |-> "init_raised",
                value |-> 0]
    /\ UNCHANGED << fs, heap, cache, events, loads, scans, ncalls, rootret,
                    calls, thr >>

\* Mutant of HookCall: the root() a subscriber calls finds no cache and
\* starts a build of its own.
HookCallRebuild(op, slugs) ==
    /\ pc = "init"
    /\ stack # <<>>
    /\ Top.phase = "enter" \/ (Top.phase = "kids" /\ Top.todo = <<>>)
    /\ heap' = Append(heap, NewNode)
    /\ cache' = Len(heap) + 1
    /\ pc' = "scan"
    /\ stack' = << ScanFrame(Len(heap) + 1, <<>>) >>
    /\ scans' = Append(scans, [node |-> Len(heap) + 1, path |-> <<>>])
    /\ UNCHANGED << fs, events, loads, ncalls, rootret, last,
                    calls, thr >>

\* A subscriber of a hook that init() runs ('node_text', 'node_html',
\* 'init_node') calls root() or node(*slugs) while the first root() call
\* is still in init(): root() finds the cache set and returns it.
HookCall(op, slugs) ==
    /\ pc = "init"
    /\ stack # <<>>
    /\ Top.phase = "enter" \/ (Top.phase = "kids" /\ Top.todo = <<>>)
    /\ cache # 0
    /\ rootret' = rootret \cup { cache }
    /\ last' = [op |-> "hook", slugs |-> <<>>, outcome |-> "returned",
                value |-> Outcome(heap, op, slugs).value]
    /\ UNCHANGED << fs, heap, cache, pc, stack, events, loads, scans, ncalls,
                    calls, thr >>

\* root(), lines 27-28: fire 'init_tree' with what init() returned and
\* return the cache; node() then descends from it.
TreeEvents(ev, n) == Append(ev, [name |-> "init_tree", node |-> n])

RootReturn(op, slugs) ==
    /\ pc = "init"
    /\ stack = <<>>
    /\ events' = TreeEvents(events, cache)
    /\ rootret' = rootret \cup { cache }
    /\ last' = Outcome(heap, op, slugs)
    /\ pc' = "idle"
    /\ UNCHANGED << fs, heap, cache, stack, loads, scans, ncalls,
                    calls, thr >>

\* A caller holding a Node asks for an inherited attribute.
CallInherit(n, key) ==
    /\ pc = "idle"
    /\ n \in 1..Len(heap)
    /\ last' = [op |-> "inherit", slugs |-> <<>>, outcome |-> "returned",
                value |-> n, key |-> key,
                result |-> Inherit(heap, n, key, DefaultValue)]
    /\ UNCHANGED << fs, heap, cache, pc, stack, events, loads, scans,
                    ncalls, rootret,
                    calls, thr >>

\* A caller holding a Node reads its path and its url.
CallPath(n) ==
    /\ pc = "idle"
    /\ n \in 1..Len(heap)
    /\ last' = [op |-> "path", slugs |-> <<>>, outcome |-> "returned",
                value |-> n, path |-> NodePath(heap, n),
                url |-> NodeUrl(heap, n)]
    /\ UNCHANGED << fs, heap, cache, pc, stack, events, loads, scans,
                    ncalls, rootret,
                    calls, thr >>

Next ==
    \/ \E path \in CandidateDirs : MakeDir(path)
    \/ \E path \in CandidateFiles : MakeFile(path)
    \/ \E slugs \in SlugArgs : CallCached("node", slugs)
    \/ CallBuild
    \/ CallCached("root", <<>>)
    \/ ListDirs
    \/ \E path \in fs.dirs : ScanDir(path)
    \/ ListFiles
    \/ \E path \in fs.files : SkipFile(path) \/ ScanFile(path)
    \/ ScanReturn
    \/ ScanRaise
    \/ InitEnter
    \/ InitChild
    \/ InitExit
    \/ \E slugs \in SlugArgs : RootReturn("node", slugs)
    \/ RootReturn("root", <<>>)
    \/ \E n \in 1..Len(heap), key \in InheritKeys : CallInherit(n, key)

Spec == Init /\ [][Next]_vars

\* The build of the tree by a first root() call, and callers that read
\* the path and the url of its Nodes.
NextPath ==
    \/ \E path \in CandidateDirs : MakeDir(path)
    \/ \E path \in CandidateFiles : MakeFile(path)
    \/ CallBuild
    \/ ListDirs
    \/ \E path \in fs.dirs : ScanDir(path)
    \/ ListFiles
    \/ \E path \in fs.files : SkipFile(path) \/ ScanFile(path)
    \/ ScanReturn
    \/ InitEnter
    \/ InitChild
    \/ InitExit
    \/ RootReturn("root", <<>>)
    \/ \E n \in 1..Len(heap) : CallPath(n)

SpecPath == Init /\ [][NextPath]_vars

\* The calls of root() and node() with subscribers on the hooks of init()
\* that raise or that call root() and node() themselves.
NextHooks ==
    \/ \E path \in CandidateDirs : MakeDir(path)
    \/ \E path \in CandidateFiles : MakeFile(path)
    \/ \E slugs \in SlugArgs : CallCached("node", slugs)
    \/ CallBuild
    \/ CallCached("root", <<>>)
    \/ ListDirs
    \/ \E path \in fs.dirs : ScanDir(path)
    \/ ListFiles
    \/ \E path \in fs.files : SkipFile(path) \/ ScanFile(path)
    \/ ScanReturn
    \/ ScanRaise
    \/ InitEnter
    \/ InitChild
    \/ InitExit
    \/ \E slugs \in SlugArgs : RootReturn("node", slugs)
    \/ RootReturn("root", <<>>)
    \/ InitRaise
    \/ \E slugs \in SlugArgs : HookCall("node", slugs)
    \/ HookCall("root", <<>>)

SpecHooks == Init /\ [][NextHooks]_vars

\* ------------------------------------------------------------ Node.walk
\* Mutant of WalkKids: walk() goes into the first subnode only.
WalkKidsFirst(h, n) ==
    IF h[n].children = <<>> THEN <<>> ELSE << h[n].children[1][2] >>

\* Node.walk, line 126: the subnodes walk() is called on, in order.
WalkKids(h, n) == DictValues(h[n].children)

WalkFrame(n) ==
    [node |-> n, path |-> <<>>, phase |-> "kids", todo |-> WalkKids(heap, n)]

\* A caller holding a Node calls walk(callback) on it.
WalkStart(n) ==
    /\ pc = "idle"
    /\ n \in 1..Len(heap)
    /\ pc' = "walk"
    /\ stack' = << WalkFrame(n) >>
    /\ calls' = <<>>
    /\ last' = [op |-> "walk", slugs |-> <<>>, outcome |-> "running",
                value |-> n]
    /\ UNCHANGED << fs, heap, cache, events, loads, scans, ncalls, rootret,
                    thr >>

\* Node.walk, lines 126-127: walk(callback) of the next subnode.
WalkChild ==
    /\ pc = "walk"
    /\ Top.todo # <<>>
    /\ stack' = Append(SetTop([Top EXCEPT !.todo = Tail(@)]),
                       WalkFrame(Head(Top.todo)))
    /\ UNCHANGED << fs, heap, cache, pc, events, loads, scans, ncalls,
                    rootret, last, calls, thr >>

\* Node.walk, line 128: callback(self), and walk() returns.
WalkCallback ==
    /\ pc = "walk"
    /\ Top.todo = <<>>
    /\ calls' = Append(calls, Top.node)
    /\ stack' = Pop
    /\ IF Len(stack) = 1
       THEN pc' = "idle" /\ last' = [last EXCEPT !.outcome = "returned"]
       ELSE pc' = pc /\ last' = last
    /\ UNCHANGED << fs, heap, cache, events, loads, scans, ncalls, rootret,
                    thr >>

\* The build of the tree by a first root() call, and walk() on its Nodes.
NextWalk ==
    \/ \E path \in CandidateDirs : MakeDir(path)
    \/ \E path \in CandidateFiles : MakeFile(path)
    \/ CallBuild
    \/ ListDirs
    \/ \E path \in fs.dirs : ScanDir(path)
    \/ ListFiles
    \/ \E path \in fs.files : SkipFile(path) \/ ScanFile(path)
    \/ ScanReturn
    \/ InitEnter
    \/ InitChild
    \/ InitExit
    \/ RootReturn("root", <<>>)
    \/ \E n \in 1..Len(heap) : WalkStart(n)
    \/ WalkChild
    \/ WalkCallback

SpecWalk == Init /\ [][NextWalk]_vars

\* ------------------------------------------------- root() in two threads
\* iterdir(): the entries of a set in the order of one enumeration.
RECURSIVE IterDir(_)
IterDir(S) ==
    IF S = {} THEN <<>>
    ELSE LET x == CHOOSE x \in S : TRUE
         IN <<x>> \o IterDir(S \ {x})

\* parse_node_directory run from its call to its return, on the record
\* st of the heap and the logs of scans and loads: the scan of the
\* directory dirpath into dirnode, node() looking up from `root`.
RECURSIVE ScanAll(_, _, _, _)
RECURSIVE ScanDirs(_, _, _, _)
RECURSIVE ScanFiles(_, _, _, _)
ScanAll(st, root, dirnode, dirpath) ==
    LET st0 == [st EXCEPT !.scans = Append(@, [node |-> dirnode, path |-> dirpath])]
        st1 == ScanDirs(st0, root, dirnode, IterDir(SubDirs(dirpath)))
    IN ScanFiles(st1, root, dirnode, IterDir(DirFiles(dirpath)))

ScanDirs(st, root, dirnode, todo) ==
    IF todo = <<>> THEN st
    ELSE LET child == Len(st.heap) + 1
             st1 == [st EXCEPT !.heap = AddChildDir(@, dirnode, Head(todo))]
         IN ScanDirs(ScanAll(st1, root, child, Head(todo)), root, dirnode,
                     Tail(todo))

ScanFiles(st, root, dirnode, todo) ==
    IF todo = <<>> THEN st
    ELSE LET f == Head(todo)
             st1 == IF Skipped(f) THEN st
                    ELSE [st EXCEPT !.heap = ParseNodeFile(@, root, dirnode, f),
                                    !.loads = Append(@, f)]
         IN ScanFiles(st1, root, dirnode, Tail(todo))

\* Node.init run from its call to its return, on the record st of the
\* heap and the log of events.
RECURSIVE InitAll(_, _)
RECURSIVE InitSeq(_, _)
InitAll(st, n) ==
    LET st1 == [st EXCEPT !.heap = InitNode(@, n)]
        st2 == InitSeq(st1, InitKids(st1.heap, n))
    IN [st2 EXCEPT !.events = InitEvents(@, n)]

InitSeq(st, kids) ==
    IF kids = <<>> THEN st
    ELSE InitSeq(InitAll(st, Head(kids)), Tail(kids))

\* Mutant of ThreadTest: a build another thread has begun counts as a
\* cache that is present.
ThreadTestGuarded(t) ==
    LET busy == \E u \in Threads \ {t} : thr[u].pc \in {"assign", "scan", "init"}
        absent == cache = 0 /\ ~busy
    IN /\ thr[t].pc = "start"
       /\ thr' = [thr EXCEPT ![t] =
                    [pc |-> IF absent THEN "assign" ELSE "return",
                     seen |-> IF absent THEN "absent" ELSE "present"]]
       /\ ncalls' = ncalls + 1
       /\ UNCHANGED << fs, heap, cache, pc, stack, events, loads, scans,
                       rootret, last, calls >>

\* root(), line 24, in thread t: the test `cache is None`.
ThreadTest(t) ==
    /\ thr[t].pc = "start"
    /\ thr' = [thr EXCEPT ![t] =
                 [pc |-> IF cache = 0 THEN "assign" ELSE "return",
                  seen |-> IF cache = 0 THEN "absent" ELSE "present"]]
    /\ ncalls' = ncalls + 1
    /\ UNCHANGED << fs, heap, cache, pc, stack, events, loads, scans,
                    rootret, last, calls >>

\* root(), line 25, in thread t: cache = Node().
ThreadAssign(t) ==
    /\ thr[t].pc = "assign"
    /\ heap' = Append(heap, NewNode)
    /\ cache' = Len(heap) + 1
    /\ thr' = [thr EXCEPT ![t].pc = "scan"]
    /\ UNCHANGED << fs, pc, stack, events, loads, scans, ncalls, rootret,
                    last, calls >>

\* root(), line 26, in thread t: parse_node_directory on the Node the
\* global `cache` names when the call is made.
ThreadScan(t) ==
    /\ thr[t].pc = "scan"
    /\ LET st == ScanAll([heap |-> heap, scans |-> scans, loads |-> loads],
                         cache, cache, <<>>)
       IN /\ heap' = st.heap
          /\ scans' = st.scans
          /\ loads' = st.loads
          /\ rootret' = IF \E i \in (Len(loads) + 1)..Len(st.loads) :
                              slugify(PathStem(st.loads[i][Len(st.loads[i])]))
                                  # <<"index">>
                        THEN rootret \cup { cache } ELSE rootret
    /\ thr' = [thr EXCEPT ![t].pc = "init"]
    /\ UNCHANGED << fs, cache, pc, stack, events, ncalls, last, calls >>

\* root(), line 27, in thread t: init() on the Node the global `cache`
\* names, and the 'init_tree' event with what init() returned.
ThreadInit(t) ==
    /\ thr[t].pc = "init"
    /\ LET st == InitAll([heap |-> heap, events |-> events], cache)
       IN /\ heap' = st.heap
          /\ events' = TreeEvents(st.events, cache)
    /\ thr' = [thr EXCEPT ![t].pc = "return"]
    /\ UNCHANGED << fs, cache, pc, stack, loads, scans, ncalls, rootret,
                    last, calls >>

\* root(), line 28, in thread t: return cache.
ThreadReturn(t) ==
    /\ thr[t].pc = "return"
    /\ rootret' = rootret \cup { cache }
    /\ last' = [op |-> "root", slugs |-> <<>>, outcome |-> "returned",
                value |-> cache]
    /\ thr' = [thr EXCEPT ![t].pc = "done"]
    /\ UNCHANGED << fs, heap, cache, pc, stack, events, loads, scans, ncalls,
                    calls >>

\* Two threads call root() on a source directory, each running the
\* statements of root() in order, interleaved in any way.
NextThreads ==
    \/ \E path \in CandidateDirs : MakeDir(path)
    \/ \E path \in CandidateFiles : MakeFile(path)
    \/ \E t \in Threads : ThreadTest(t)
    \/ \E t \in Threads : ThreadAssign(t)
    \/ \E t \in Threads : ThreadScan(t)
    \/ \E t \in Threads : ThreadInit(t)
    \/ \E t \in Threads : ThreadReturn(t)

SpecThreads == Init /\ [][NextThreads]_vars

\* ------------------------------------------------------------ the claims
Range(f) == { f[i] : i \in DOMAIN f }

\* The Nodes reachable from `from` through children mappings.
RECURSIVE ReachFrom(_, _, _)
ReachFrom(h, S, k) ==
    LET T == S \cup UNION { Range(DictValues(h[n].children)) : n \in S }
    IN IF k = 0 \/ T = S THEN S ELSE ReachFrom(h, T, k - 1)

TreeNodes == IF cache = 0 THEN {} ELSE ReachFrom(heap, {cache}, Len(heap))
Descendants(n) == ReachFrom(heap, {n}, Len(heap)) \ {n}

Fired(name, n) == { i \in DOMAIN events : events[i] = [name |-> name, node |-> n] }
TreeFired == { i \in DOMAIN events : events[i].name = "init_tree" }

\* The first call has returned and nothing was called since.
FirstCallReturned ==
    /\ pc = "idle"
    /\ ncalls = 1
    /\ last.op \in {"root", "node"}
    /\ last.outcome = "returned"

NoDuplicates(seq) == \A i, j \in DOMAIN seq : seq[i] = seq[j] => i = j

\* C1: in the init() walk, the init_node event of every descendant of a
\* node has fired before the init_node event of the node fires.
C1_BottomUpInitNode ==
    \A i \in DOMAIN events :
        events[i].name = "init_node" =>
            \A d \in Descendants(events[i].node) :
                \E j \in 1..(i - 1) : events[j] = [name |-> "init_node", node |-> d]

\* C1 witness: the walk has finished on a tree with a grandchild of the
\* root, and the root's init_node event has fired.
C1_Witness ==
    /\ pc = "idle"
    /\ cache # 0
    /\ Fired("init_node", cache) # {}
    /\ \E n \in Descendants(cache) : Descendants(n) # {}

\* C2: every root() call returns the same Node, and no directory is
\* scanned and no file is loaded a second time by a later call.
C2_RootMemoized ==
    /\ rootret \subseteq {cache}
    /\ Cardinality(rootret) <= 1
    /\ NoDuplicates(scans)
    /\ NoDuplicates([i \in DOMAIN scans |-> scans[i].path])
    /\ NoDuplicates(loads)

\* C2 witness: a second root() call has returned after a build that
\* loaded a file.
C2_Witness ==
    /\ pc = "idle"
    /\ ncalls >= 2
    /\ last.op = "root"
    /\ last.outcome = "returned"
    /\ TreeFired # {}
    /\ loads # <<>>

\* C3 (as claimed): when the scan raises during the first root() call,
\* the cache stays absent.
C3_FailedScanNotCached ==
    (last.outcome = "raised") => cache = 0

\* The source directory as the claims speak of it.
Slug(name) == slugify(PathStem(name))
SlugPath(p) == [i \in 1..Len(p) |-> Slug(p[i])]
ParentDir(p) == SubSeq(p, 1, Len(p) - 1)
LastName(p) == p[Len(p)]
Accepted == { f \in fs.files : ~Skipped(f) }
IndexFile(f) == Slug(LastName(f)) = <<"index">>
ChildSlugs(n) == { heap[n].children[i][1] : i \in DOMAIN heap[n].children }

\* The scan has run to its end without raising.
ScanComplete == pc = "init" \/ TreeFired # {}

\* The slugs of the children a directory's own entries produce.
ExpectedChildSlugs(x) ==
    { Slug(LastName(y)) : y \in SubDirs(x) }
        \cup { Slug(LastName(g)) : g \in { g \in DirFiles(x) \cap Accepted : ~IndexFile(g) } }

\* The file's text, metadata and extension are on Node m.
HasFileData(h, m, f) ==
    /\ h[m].data["text"].src = f
    /\ \A k \in DOMAIN LoadMeta(f) :
          k \in DOMAIN h[m].data /\ h[m].data[k] = LoadMeta(f)[k]
    /\ h[m].ext = StripDots(PathSuffix(LastName(f)))

\* C4 (as claimed, read in the claim's favour: the slug is not 'index',
\* which C5 sends to the directory's own node, and the file is the only
\* accepted file of that slug): a subdirectory and a file of the same
\* parent with the same slug end up as one child Node under that slug,
\* which has the children the subdirectory produces and the file's text,
\* metadata and extension.
C4_CoterminousMerge ==
    ScanComplete =>
        \A x \in fs.dirs, f \in Accepted :
            LET s == Slug(LastName(x))
                dn == Descend(heap, cache, SlugPath(ParentDir(x)))
            IN ( /\ ParentDir(x) = ParentDir(f)
                 /\ Slug(LastName(f)) = s
                 /\ s # <<"index">>
                 /\ \A g \in Accepted :
                       (ParentDir(g) = ParentDir(f) /\ Slug(LastName(g)) = s) => g = f )
               => /\ dn # 0
                  /\ DictHas(heap[dn].children, s)
                  /\ Cardinality({ i \in DOMAIN heap[dn].children :
                                     heap[dn].children[i][1] = s }) = 1
                  /\ LET m == DictGet(heap[dn].children, s)
                     IN /\ HasFileData(heap, m, f)
                        /\ ChildSlugs(m) = ExpectedChildSlugs(x)

\* C5: the step that parses an accepted file of slug 'index' stores the
\* file's text, metadata and extension on the Node of the directory being
\* scanned, leaves that Node's slug, stem, parent and children as they
\* were, allocates no Node and changes no other Node.
C5_IndexFilePopulatesDir ==
    [][ (loads' # loads /\ IndexFile(loads'[Len(loads')])) =>
          LET f == loads'[Len(loads')]
              d == Top.node
          IN /\ \E i \in DOMAIN scans :
                    scans[i] = [node |-> d, path |-> ParentDir(f)]
             /\ Len(heap') = Len(heap)
             /\ heap'[d].data["text"] = LoadText(f)
             /\ HasFileData(heap', d, f)
             /\ heap'[d].slug = heap[d].slug
             /\ heap'[d].stem = heap[d].stem
             /\ heap'[d].parent = heap[d].parent
             /\ heap'[d].children = heap[d].children
             /\ \A n \in 1..Len(heap) : n # d => heap'[n] = heap[n]
      ]_vars

\* C5 witness: the build has finished and a subdirectory's Node, which has
\* children, carries the text of the index file of that subdirectory.
C5_Witness ==
    /\ pc = "idle"
    /\ TreeFired # {}
    /\ \E n \in TreeNodes :
          /\ heap[n].parent # 0
          /\ heap[n].children # <<>>
          /\ heap[n].data["text"].src \in fs.files
          /\ IndexFile(heap[n].data["text"].src)
          /\ heap[n].slug # <<"index">>

\* C6 (as claimed, read in the claim's favour: no accepted file has the
\* slug 'index' and no two accepted files of a directory share a slug):
\* when no file and subdirectory of the same parent share a slug, the tree
\* has one Node per directory and per accepted file, under the same
\* parent/child relation.
C6_TreeIsomorphic ==
    ( /\ ScanComplete
      /\ \A x \in fs.dirs, f \in fs.files :
            ParentDir(x) = ParentDir(f) => Slug(LastName(x)) # Slug(LastName(f))
      /\ \A f \in Accepted : ~IndexFile(f)
      /\ \A f, g \in Accepted :
            (ParentDir(f) = ParentDir(g) /\ Slug(LastName(f)) = Slug(LastName(g)))
                => f = g )
    => /\ Cardinality(TreeNodes) = 1 + Cardinality(fs.dirs) + Cardinality(Accepted)
       /\ \A p \in fs.dirs \cup Accepted :
             LET n == Descend(heap, cache, SlugPath(p))
             IN /\ n # 0
                /\ heap[n].parent = Descend(heap, cache, SlugPath(ParentDir(p)))

\* C7 (as claimed): after the scan every subdirectory has its own Node,
\* the one node() returns for the slugs of the directories on its path.
C7_EverySubdirAddressable ==
    ScanComplete =>
        \A d \in fs.dirs :
            \E i \in DOMAIN scans :
                /\ scans[i].path = d
                /\ Descend(heap, cache, SlugPath(d)) = scans[i].node

\* The Nodes met by following parent links from n, at most k of them.
RECURSIVE ParentChain(_, _, _)
ParentChain(h, n, k) ==
    IF n = 0 \/ k = 0 THEN <<>>
    ELSE <<n>> \o ParentChain(h, h[n].parent, k - 1)

ParentsOf(n) ==
    { p \in 1..Len(heap) : n \in Range(DictValues(heap[p].children)) }

\* C8: the tree has one root, the cache, whose parent is None; every other
\* Node of the tree has a parent in the tree whose children mapping holds
\* it under its own slug, is the child of no second Node, and reaches the
\* root by its parent links without a cycle.
C8_TreeShape ==
    cache # 0 =>
        /\ heap[cache].parent = 0
        /\ \A n \in TreeNodes \ {cache} :
              LET p == heap[n].parent
                  chain == ParentChain(heap, n, Len(heap) + 1)
              IN /\ p # 0
                 /\ p \in TreeNodes
                 /\ DictHas(heap[p].children, heap[n].slug)
                 /\ DictGet(heap[p].children, heap[n].slug) = n
                 /\ ParentsOf(n) = {p}
                 /\ Cardinality({ i \in DOMAIN heap[p].children :
                                    heap[p].children[i][2] = n }) = 1
                 /\ Len(chain) <= Len(heap)
                 /\ chain[Len(chain)] = cache
                 /\ NoDuplicates(chain)

\* C8 witness: the build has finished on a tree of at least four Nodes
\* in which a directory's Node was merged with a coterminous file.
C8_Witness ==
    /\ pc = "idle"
    /\ TreeFired # {}
    /\ Cardinality(TreeNodes) >= 4
    /\ \E n \in TreeNodes \ {cache} :
          heap[n].children # <<>> /\ heap[n].ext # <<>>

\* C9: init_tree fires at most once; when the first root() call returns it
\* has fired exactly once, with the root as payload; and it fires only
\* after the init_node event of every Node of the tree.
C9_InitTreeOnce ==
    /\ Cardinality(TreeFired) <= 1
    /\ FirstCallReturned =>
          /\ Cardinality(TreeFired) = 1
          /\ Fired("init_tree", cache) = TreeFired
    /\ \A i \in TreeFired :
          \A n \in TreeNodes :
              \E j \in 1..(i - 1) : events[j] = [name |-> "init_node", node |-> n]

\* C9 witness: a second call has returned after the first call built and
\* initialized a tree of at least three Nodes.
C9_Witness ==
    /\ pc = "idle"
    /\ ncalls = 2
    /\ last.outcome = "returned"
    /\ last.op \in {"root", "node"}
    /\ Cardinality(TreeFired) = 1
    /\ Cardinality(TreeNodes) >= 3

\* C10: inherit(key, default) returns the value the nearest Node of the
\* chain N, N.parent, ..., root holding the key stores under it, the
\* default when no Node of the chain holds the key, and changes no Node.
C10_InheritNearest ==
    /\ [] ( last.op = "inherit" =>
              LET chain == ParentChain(heap, last.value, Len(heap))
                  holders == { i \in DOMAIN chain :
                                 last.key \in DOMAIN heap[chain[i]].data }
              IN /\ last.outcome = "returned"
                 /\ IF holders = {}
                    THEN last.result = DefaultValue
                    ELSE \E i \in holders :
                            /\ \A j \in holders : i <= j
                            /\ last.result = heap[chain[i]].data[last.key] )
    /\ [][ (last'.op = "inherit" /\ last' # last) => heap' = heap ]_vars

\* C10 witness: inherit returned a value that the Node itself does not
\* hold and an ancestor does.
C10_Witness ==
    /\ last.op = "inherit"
    /\ last.key \notin DOMAIN heap[last.value].data
    /\ last.result # DefaultValue
    /\ heap[last.value].parent # 0

\* The Nodes node(*slugs) passes through: at[i] is the Node reached after i
\* slugs, 0 from the first level on at which the slug is not a child.
LevelNodes(slugs) ==
    LET at[i \in 0..Len(slugs)] ==
            IF i = 0 THEN cache
            ELSE IF at[i - 1] = 0 THEN 0
            ELSE LET kids == { j \in 1..Len(heap[at[i - 1]].children) :
                                 heap[at[i - 1]].children[j][1] = slugs[i] }
                 IN IF kids = {} THEN 0
                    ELSE heap[at[i - 1]].children[CHOOSE j \in kids : TRUE][2]
    IN at

\* C11: node(s1, ..., sn) returns None as soon as a slug is absent at some
\* level, also when the earlier slugs exist, and otherwise the very Node
\* root().children[s1]...children[sn].
C11_NodeDescends ==
    (last.op = "node" /\ last.outcome = "returned") =>
        /\ cache # 0
        /\ last.value = LevelNodes(last.slugs)[Len(last.slugs)]
        /\ (\E i \in 1..Len(last.slugs) : LevelNodes(last.slugs)[i] = 0)
              => last.value = 0

\* node(s1, s2) found s1 but no s2 below it and returned None, in a tree
\* that holds a Node two levels down under other slugs.
C11_Witness ==
    /\ last.op = "node"
    /\ last.outcome = "returned"
    /\ Len(last.slugs) = 2
    /\ LevelNodes(last.slugs)[1] # 0
    /\ LevelNodes(last.slugs)[2] = 0
    /\ last.value = 0
    /\ \E s \in SlugArgs : Len(s) = 2 /\ LevelNodes(s)[2] # 0

\* The string of a url: the tokens of the segments in order, a "/" after
\* every segment but the last.
RECURSIVE UrlBody(_, _)
UrlBody(segs, i) ==
    IF i > Len(segs) THEN <<>>
    ELSE (segs[i] \o (IF i < Len(segs) THEN <<"/">> ELSE <<>>))
            \o UrlBody(segs, i + 1)

\* C12: the path of a Node is the slugs of the Nodes from the root's child
\* down to the Node itself, empty for the root; its url is '@root/' for
\* the root and '@root/', the path segments joined with '/', and a
\* trailing '//' for every other Node.
C12_PathAndUrl ==
    last.op = "path" =>
        LET chain == ParentChain(heap, last.value, Len(heap) + 1)
            depth == Len(chain) - 1
            segs == [i \in 1..depth |-> heap[chain[depth + 1 - i]].slug]
        IN /\ last.outcome = "returned"
           /\ heap[chain[Len(chain)]].parent = 0
           /\ last.path = segs
           /\ depth = 0 => last.path = <<>> /\ last.url = <<"@root/">>
           /\ depth > 0 =>
                 last.url = (<<"@root/">> \o UrlBody(segs, 1)) \o <<"//">>

\* C12 witness: the path and the url of a Node three levels down whose
\* segments are not all the same, and the build had finished.
C12_Witness ==
    /\ last.op = "path"
    /\ TreeFired # {}
    /\ last.value \in TreeNodes
    /\ Len(last.path) = 3
    /\ last.path[1] # last.path[2]
    /\ last.url = <<"@root/", "a", "/", "b", "/", "a", "//">>

\* A file whose stem begins with a dot, or whose extension no rendering
\* engine is registered for.
HiddenFile(f) == Head(PathStem(LastName(f))) = "."
Unregistered(f) == StripDots(PathSuffix(LastName(f))) \notin callbacks

\* The loop over the files of a directory is at file f and leaves it.
FileHandled(f) ==
    \/ Len(stack') # Len(stack)
    \/ f \notin stack'[Len(stack')].todo

\* C13: for a file whose stem begins with '.' or whose extension is not
\* registered the builder creates no Node, changes no Node and never
\* calls the loader; the file is no error and the scan goes on with the
\* other files of the directory.
C13_SkippedFilesUntouched ==
    /\ [] ( \A f \in fs.files :
               (HiddenFile(f) \/ Unregistered(f)) =>
                   /\ f \notin Range(loads)
                   /\ \A n \in 1..Len(heap) : \A k \in DOMAIN heap[n].data :
                         heap[n].data[k].src # f )
    /\ [][ (pc = "scan" /\ stack # <<>> /\ Top.phase = "files") =>
              \A f \in Top.todo :
                  ((HiddenFile(f) \/ Unregistered(f)) /\ FileHandled(f)) =>
                      /\ heap' = heap
                      /\ loads' = loads
                      /\ pc' = "scan"
                      /\ last' = last
                      /\ stack' = SetTop([Top EXCEPT !.todo = @ \ { f }]) ]_vars

\* C13 witness: a build has finished on a source directory that holds a
\* dotfile with a registered extension, a file with an unregistered
\* extension and a file that was loaded.
C13_Witness ==
    /\ pc = "idle"
    /\ TreeFired # {}
    /\ \E f \in fs.files : HiddenFile(f) /\ ~Unregistered(f)
    /\ \E f \in fs.files : Unregistered(f) /\ ~HiddenFile(f)
    /\ loads # <<>>

\* Every Node of the tree has been filtered and rendered and its
\* init_node event has fired, and init_tree has fired.
FullyInitialized ==
    /\ cache # 0
    /\ ScanComplete
    /\ \A n \in TreeNodes :
          /\ Fired("init_node", n) # {}
          /\ heap[n].data["html"].ops # <<>>
    /\ TreeFired # {}

\* C14 (as claimed): the cache is absent before the first call, and
\* whenever root() or node() has handed a Node to a caller, also to one
\* calling while the first root() call is running or after it failed,
\* the tree is scanned and initialized and all its events have fired.
C14_CacheOnlyInitialized ==
    /\ ncalls = 0 => cache = 0
    /\ rootret # {} => FullyInitialized
    /\ (last.op \in {"root", "node", "hook"} /\ last.outcome = "returned"
          /\ last.value # 0) => FullyInitialized

\* init() enters the Node on top of the stack and runs its three hooks.
InitRuns ==
    /\ pc = "init"
    /\ stack # <<>>
    /\ Top.phase = "enter"
    /\ pc' = "init"
    /\ stack' # stack

\* C15: init() applies the node_text filter to the text, hands the
\* filtered text and the Node's ext to the renderer and the renderer's
\* result to the node_html filter; afterwards the Node's text is the
\* filtered text and its html is node_html(render(node_text(text), ext)).
C15_InitPipeline ==
    /\ [][ InitRuns =>
              LET n == Top.node
                  raw == heap[n].data["text"]
                  filtered == Filter("node_text", raw)
              IN /\ heap'[n].data["text"] = filtered
                 /\ heap'[n].data["html"] =
                        Filter("node_html", Render(filtered, heap[n].ext))
                 /\ \A k \in DOMAIN heap[n].data \ {"text", "html"} :
                        heap'[n].data[k] = heap[n].data[k]
                 /\ \A m \in 1..Len(heap) : m # n => heap'[m] = heap[m] ]_vars
    /\ [] ( \A n \in 1..Len(heap) :
               Fired("init_node", n) # {} =>
                   /\ heap[n].data["text"].ops = <<"node_text">>
                   /\ heap[n].data["html"].src = heap[n].data["text"].src
                   /\ heap[n].data["html"].ops =
                         (<<"node_text", "render">> \o heap[n].ext)
                             \o <<"node_html">> )

\* C15 witness: init() has finished on a Node that holds the text of a
\* loaded file with a registered extension.
C15_Witness ==
    \E n \in 1..Len(heap) :
        /\ Fired("init_node", n) # {}
        /\ heap[n].ext = <<"md">>
        /\ heap[n].data["text"].src # <<>>
        /\ heap[n].data["html"].ops = <<"node_text", "render", "md", "node_html">>

\* callback was called on Node m before the i-th call.
CalledBefore(m, i) == \E j \in 1..(i - 1) : calls[j] = m

\* C16: walk(callback) on a Node N calls the callback exactly once on N
\* and on every descendant of N and on no other Node, and on every Node
\* of the subtree only after it was called on all descendants of it.
C16_WalkPostOrder ==
    last.op = "walk" =>
        LET N == last.value
            subtree == {N} \cup Descendants(N)
        IN /\ NoDuplicates(calls)
           /\ Range(calls) \subseteq subtree
           /\ \A i \in DOMAIN calls :
                 \A d \in Descendants(calls[i]) : CalledBefore(d, i)
           /\ last.outcome = "returned" =>
                 /\ Range(calls) = subtree
                 /\ calls[Len(calls)] = N

\* C16 witness: walk() has returned on a Node with a subnode that has
\* subnodes itself and with a second subnode, in a tree holding a Node
\* outside the walked subtree.
C16_Witness ==
    /\ last.op = "walk"
    /\ last.outcome = "returned"
    /\ \E d \in Descendants(last.value) : Descendants(d) # {}
    /\ Len(heap[last.value].children) >= 2
    /\ Len(calls) >= 4
    /\ last.value # cache

\* The threads that found the cache absent and are at one of `at`.
Builders(at) == { t \in Threads : thr[t].seen = "absent" /\ thr[t].pc \in at }
RootScans == { i \in DOMAIN scans : scans[i].path = <<>> }

\* C17: nothing but the test `cache is None` guards the build: a thread
\* that calls root() while the cache is absent goes on to build whatever
\* the other thread is doing, a thread skips the build only when the
\* cache is set, and every thread that found the cache absent has, once
\* past them, run a scan of its own and fired init_tree itself.
C17_UnguardedBuild ==
    /\ [][ \A t \in Threads :
              (thr[t].pc = "start" /\ thr'[t].pc # "start" /\ cache = 0) =>
                  thr'[t] = [pc |-> "assign", seen |-> "absent"] ]_vars
    /\ [] ( /\ \A t \in Threads : thr[t].seen = "present" => cache # 0
            /\ Cardinality(RootScans)
                  = Cardinality(Builders({"init", "return", "done"}))
            /\ Cardinality(TreeFired)
                  = Cardinality(Builders({"return", "done"})) )

\* C17 witness: both threads found the cache absent and have returned;
\* the source directory was scanned twice, a file was loaded twice and
\* init_tree and init_node events have fired twice.
C17_Witness ==
    /\ \A t \in Threads : thr[t] = [pc |-> "done", seen |-> "absent"]
    /\ Cardinality(RootScans) = 2
    /\ Cardinality(TreeFired) = 2
    /\ loads # <<>>
    /\ \A i \in DOMAIN loads : \E j \in DOMAIN loads : j # i /\ loads[j] = loads[i]
    /\ Cardinality({ i \in DOMAIN events : events[i].name = "init_node" })
          >= 2 * Cardinality(TreeNodes)
    /\ Cardinality(TreeNodes) >= 2

\* What a tree is to its users: for every Node reachable from the root
\* its path (which gives the slugs and the parent/child relation), the
\* file its text was loaded from, its metadata and its ext.
TreeView(h, root) ==
    { [ path |-> NodePath(h, n),
        text |-> h[n].data["text"].src,
        meta |-> [k \in DOMAIN h[n].data \ {"text", "html"} |-> h[n].data[k]],
        ext |-> h[n].ext ] : n \in ReachFrom(h, {root}, Len(h)) }

\* The tree another run builds from the same source directory, with the
\* entries of every directory enumerated in the order of IterDir.
OtherRun ==
    ScanAll([heap |-> << NewNode >>, scans |-> <<>>, loads |-> <<>>], 1, 1, <<>>)

\* C18 (as claimed): two runs on the same source directory that differ
\* only in the order in which iterdir() enumerates the entries build the
\* same tree: the same slugs and parent/child relation and, Node for
\* Node, the same text, metadata and ext.
C18_OrderIndependent ==
    ScanComplete => TreeView(heap, cache) = TreeView(OtherRun.heap, 1)

\* C19: after the build, node(*n.path) is n for every Node n reachable
\* from the root, and whenever node(*s) returns a Node m, m.path is s.
C19_PathRoundTrip ==
    ScanComplete =>
        /\ \A n \in TreeNodes : Descend(heap, cache, NodePath(heap, n)) = n
        /\ \A s \in SlugArgs :
              LET m == Descend(heap, cache, s)
              IN m # 0 => NodePath(heap, m) = s
        /\ (last.op = "path" /\ last.value \in TreeNodes)
              => Descend(heap, cache, last.path) = last.value

\* C19 witness: a caller has read the path of a Node two levels down, in
\* a built tree of at least four Nodes one of which comes from a file
\* alone, and node() resolves that path.
C19_Witness ==
    /\ TreeFired # {}
    /\ last.op = "path"
    /\ last.value \in TreeNodes
    /\ Len(last.path) = 2
    /\ last.path \in SlugArgs
    /\ Descend(heap, cache, last.path) # 0
    /\ Cardinality(TreeNodes) >= 4
    /\ \E n \in TreeNodes \ {cache} :
          heap[n].children = <<>> /\ heap[n].ext # <<>>

\* A root() or node() call made inside the running first root() call
\* returns in this step: the lookup of parse_node_file, or the call of a
\* hook subscriber.
ReentrantReturn ==
    /\ pc \in {"scan", "init"}
    /\ stack # <<>>
    /\ \/ rootret' # rootret
       \/ last' # last /\ last'.op = "hook"

\* C20: a root() or node() call made while the first root() call is in
\* progress finds the cache set to the root under construction, returns
\* Nodes of that tree and starts no second scan, init() or init_tree.
C20_ReentrantNoRebuild ==
    /\ [][ ReentrantReturn =>
              /\ cache # 0
              /\ cache' = cache
              /\ rootret' = rootret \cup { cache }
              /\ scans' = scans
              /\ events' = events
              /\ pc' = pc
              /\ Len(stack') = Len(stack) ]_vars
    /\ [] ( /\ rootret \subseteq { cache }
            /\ last.op = "hook" =>
                  /\ last.outcome = "returned"
                  /\ last.value \in TreeNodes \cup {0}
            /\ Cardinality(RootScans) <= 1
            /\ \A n \in 1..Len(heap) : Cardinality(Fired("init_node", n)) <= 1
            /\ Cardinality(TreeFired) <= 1 )

\* C20 witness: the first root() call is in init(), after a scan whose
\* parse_node_file looked a Node up, and a hook subscriber was handed a
\* Node below the root of the tree under construction.
C20_Witness ==
    /\ pc = "init"
    /\ ncalls = 1
    /\ last.op = "hook"
    /\ last.value \in TreeNodes \ {cache}
    /\ rootret = { cache }
    /\ events # <<>>
    /\ \E n \in TreeNodes : heap[n].children # <<>> /\ heap[n].ext # <<>> /\ n # cache
====
